---- MODULE Spec2Model ----
(***************************************************************************)
(* Verification model of the Vapi webhook service (src/app.py): the Flask  *)
(* handlers /webhook, /check-availability, /book-appointment,              *)
(* /cancel-appointment and /reschedule-appointment, the process-wide       *)
(* appointment_storage dictionary they share, and the downstream sinks     *)
(* (Google Sheets, Albiware contact, Twilio SMS, Google Calendar, Albiware *)
(* scheduler).  Every request is served by its own thread, so handlers     *)
(* interleave at each access of the shared dictionary and at each          *)
(* outbound call.                                                          *)
(*                                                                         *)
(* Python values.  A dict is a function whose DOMAIN is the set of keys    *)
(* present.  Strings the code treats as opaque (call ids, message types,   *)
(* datetimes, urgency) are TLA+ strings, None stands for JSON null.        *)
(* Strings the code takes apart (names, phone numbers) are sequences of    *)
(* one-character strings.                                                  *)
(***************************************************************************)
EXTENDS Integers, Sequences, FiniteSets, TLC

VARIABLES appointment_storage, config, reqs

vars == <<appointment_storage, config, reqs>>

(***************************************************************************)
(* Bounds of the model.                                                    *)
(***************************************************************************)
\* Number of HTTP requests the platform delivers in one run of Spec, where
\* all of them may be in flight together.
MaxRequests == 3

\* Length of the longest combined name SpecExtract puts in a structured output.
MaxNameLen == 4

\* Length of the longest address SpecExtract puts in a structured output.
MaxAddressLen == 7

(***************************************************************************)
(* Python helpers.                                                         *)
(***************************************************************************)
None == "<None>"

EmptyDict == <<>>

\* dict.get(key, default)
Get(d, k, default) == IF k \in DOMAIN d THEN d[k] ELSE default

\* bool(v) of an opaque string or None
Truthy(v) == v # "" /\ v # None

\* a or b, on opaque strings
Or(a, b) == IF Truthy(a) THEN a ELSE b

\* str(v) inside an f-string
Str(v) == IF v = None THEN "None" ELSE v

\* b or a: the second operand wins when it is non-empty.
OrTextSecond(a, b) == IF b # <<>> THEN b ELSE a

\* a or b, on character sequences
OrText(a, b) == IF a # <<>> THEN a ELSE b

IsSpace(ch) == ch \in {" ", "\t", "\n"}

\* str.lstrip() / str.rstrip() / str.strip()
RECURSIVE LStrip(_)
LStrip(s) == IF s # <<>> /\ IsSpace(Head(s)) THEN LStrip(Tail(s)) ELSE s

RECURSIVE RStrip(_)
RStrip(s) ==
    IF s # <<>> /\ IsSpace(s[Len(s)]) THEN RStrip(SubSeq(s, 1, Len(s) - 1)) ELSE s

Strip(s) == RStrip(LStrip(s))

\* Length of the longest prefix of s without whitespace.
RECURSIVE TokenLen(_)
TokenLen(s) == IF s = <<>> \/ IsSpace(Head(s)) THEN 0 ELSE 1 + TokenLen(Tail(s))

\* A split at the first whitespace character that keeps the rest of the run.
SplitFirstKeepRun(s) ==
    LET t == LStrip(s)
        n == TokenLen(t)
        rest == SubSeq(t, n + 2, Len(t))
    IN  IF t = <<>> THEN <<>>
        ELSE IF rest = <<>> THEN <<SubSeq(t, 1, n)>>
        ELSE <<SubSeq(t, 1, n), rest>>

\* str.split(None, 1): at most two parts, split at the first whitespace run.
SplitFirst(s) ==
    LET t == LStrip(s)
        n == TokenLen(t)
        rest == LStrip(SubSeq(t, n + 1, Len(t)))
    IN  IF t = <<>> THEN <<>>
        ELSE IF rest = <<>> THEN <<SubSeq(t, 1, n)>>
        ELSE <<SubSeq(t, 1, n), rest>>

\* str.startswith('+')
StartsWithPlus(s) == s # <<>> /\ Head(s) = "+"

(***************************************************************************)
(* Datetimes.  datetime.fromisoformat restricted to the strings of the     *)
(* model; a string it rejects raises ValueError.                           *)
(***************************************************************************)
IsoZ == "2025-03-01T14:00:00Z"

IsoLocal == "2025-03-02T09:30:00"

NotIso == "tomorrow at 2pm"

DateTimes == {IsoZ, IsoLocal, NotIso}

\* appointment_datetime.replace('Z', '+00:00')
ReplaceZ(s) == IF s = IsoZ THEN "2025-03-01T14:00:00+00:00" ELSE s

NoDate == [ok |-> FALSE, year |-> 0, month |-> 0, day |-> 0, hour |-> 0, minute |-> 0]

fromisoformat(s) ==
    CASE s = "2025-03-01T14:00:00+00:00" ->
           [ok |-> TRUE, year |-> 2025, month |-> 3, day |-> 1, hour |-> 14, minute |-> 0]
      [] s = "2025-03-02T09:30:00" ->
           [ok |-> TRUE, year |-> 2025, month |-> 3, day |-> 2, hour |-> 9, minute |-> 30]
      [] OTHER -> NoDate

Pad2(n) == IF n < 10 THEN "0" \o ToString(n) ELSE ToString(n)

\* strftime('%m/%d/%Y %I:%M %p').lower().replace('am', 'a.m.').replace('pm', 'p.m.')
strftime(dt) ==
    LET h12 == IF dt.hour % 12 = 0 THEN 12 ELSE dt.hour % 12
    IN  Pad2(dt.month) \o "/" \o Pad2(dt.day) \o "/" \o ToString(dt.year) \o " "
        \o Pad2(h12) \o ":" \o Pad2(dt.minute) \o " "
        \o (IF dt.hour < 12 THEN "a.m." ELSE "p.m.")

\* try: fromisoformat + strftime; except: the raw string
FormatDisplay(raw) ==
    LET dt == fromisoformat(ReplaceZ(raw))
    IN  IF dt.ok THEN strftime(dt) ELSE raw

(***************************************************************************)
(* Configuration read once at import time (lines 19-74).                   *)
(***************************************************************************)
Sinks == {"sheets", "albiware", "sms", "gcal", "albcal"}

\* TECHNICIAN_PHONES = os.environ.get('TECHNICIAN_PHONES', '').split(',')
PhoneLists ==
    { << <<>> >>,
      << <<"+", "1">> >>,
      << <<"+", "1">>, <<" ">>, <<"+", "2">> >>,
      << <<>>, <<"+", "2">> >> }

\* Each key is TRUE when the setting is present (the client was built).
Configs ==
    [APPS_SCRIPT_URL : BOOLEAN, ALBIWARE_API_KEY : BOOLEAN, twilio_client : BOOLEAN,
     calendar_service : BOOLEAN, TECHNICIAN_PHONES : PhoneLists]

\* Every deployment: without Twilio the recipient list is never read.
AllDeployments ==
    {c \in Configs : ~c.twilio_client => c.TECHNICIAN_PHONES = << <<>> >>}

\* The deployments Spec starts from: SMS and Google Calendar configured with
\* one technician, or nothing configured.
Deployments ==
    { c \in AllDeployments :
        /\ ~c.APPS_SCRIPT_URL /\ ~c.ALBIWARE_API_KEY
        /\ c.twilio_client = c.calendar_service
        /\ c.twilio_client => c.TECHNICIAN_PHONES = << <<"+", "1">> >> }

(***************************************************************************)
(* Request bodies.  message holds the keys present among message.type,     *)
(* message.call.id and message.call.customer.number; shape and result are  *)
(* message.artifact.structuredOutputs[STRUCTURED_OUTPUT_ID].result, a dict *)
(* or a value of another JSON type.  tool says which of                    *)
(* message.toolCallList ("list") and message.functionCall ("function") is  *)
(* present, tool_call is toolCallList[0], and args are the arguments: a    *)
(* dict, a JSON string of a dict ("jsonstr", args is what json.loads       *)
(* returns) or a string that is not JSON ("badstr").                       *)
(***************************************************************************)
CallIds == {"c1", "c2"}

Jane == <<"J", "o">>

Doe == <<"D", "o", "e">>

JohnQPublic == <<"J", " ", "Q", " ", "P">>

Phone == <<"7", "0", "2">>

LeadJane == [first_name |-> Jane]

LeadWithAppointment == [first_name |-> Jane, appointment_datetime |-> IsoLocal]

LeadNullUrgency == [first_name |-> Jane, urgency |-> None]

LeadResults ==
    { [first_name |-> Jane, last_name |-> Doe, phone_number |-> Phone,
       urgency |-> "emergency", damage_type |-> "water"],
      [name |-> JohnQPublic],
      LeadJane, LeadWithAppointment, LeadNullUrgency,
      [first_name |-> Jane, urgency |-> None, appointment_datetime |-> IsoZ] }

MessageOf(type, call_id) ==
    IF call_id = "" THEN [type |-> type] ELSE [type |-> type, call_id |-> call_id]

Body(json, message, shape, result, tool, tool_call, argshape, args) ==
    [json |-> json, message |-> message, shape |-> shape, result |-> result,
     tool |-> tool, tool_call |-> tool_call, argshape |-> argshape, args |-> args]

NoJsonBody ==
    Body(FALSE, EmptyDict, "absent", EmptyDict, "none", EmptyDict, "dict", EmptyDict)

WebhookBody(message, shape, result) ==
    Body(TRUE, message, shape, result, "none", EmptyDict, "dict", EmptyDict)

EndOfCall(call_id, result) ==
    WebhookBody(MessageOf("end-of-call-report", call_id), "dict", result)

\* An end-of-call report without structured output.
EndOfCallBare(call_id) ==
    WebhookBody(MessageOf("end-of-call-report", call_id), "absent", EmptyDict)

\* An end-of-call report whose structured output is not a dict.
EndOfCallScalar(call_id) ==
    WebhookBody(MessageOf("end-of-call-report", call_id), "scalar", EmptyDict)

StatusUpdate(call_id) ==
    WebhookBody(MessageOf("status-update", call_id), "dict", LeadWithAppointment)

\* The /webhook bodies of Spec.
WebhookBodies ==
    { EndOfCall("c1", LeadJane), EndOfCall("c1", LeadWithAppointment),
      EndOfCall("c1", LeadNullUrgency), EndOfCall("c2", LeadJane),
      EndOfCall("", LeadJane), EndOfCallBare("c1"), StatusUpdate("c1"), NoJsonBody }

\* The /webhook bodies of SpecInputs.
AllWebhookBodies ==
    {NoJsonBody, WebhookBody(EmptyDict, "absent", EmptyDict), StatusUpdate("c1"),
     EndOfCallScalar("c1")}
    \cup {EndOfCallBare(c) : c \in CallIds}
    \cup {EndOfCall(c, l) : c \in CallIds \cup {""}, l \in LeadResults}

(***************************************************************************)
(* Requests in flight and answered.                                        *)
(***************************************************************************)
\* The providers called: the lead sinks and the customer's confirmation SMS.
Providers == Sinks \cup {"customer_sms"}

NoFlags == [s \in Sinks |-> FALSE]

NoCalls == [s \in Providers |-> 0]

NoResponse ==
    [code |-> 0, status |-> "", toolCallId |-> "", result |-> "", data |-> EmptyDict,
     flags |-> NoFlags]

NewRequest(ep, body) ==
    [ep |-> ep, body |-> body, pc |-> "received", call_id |-> "",
     stored |-> EmptyDict, raw |-> "", lead |-> EmptyDict, contact |-> EmptyDict,
     flags |-> NoFlags, sms_sent |-> FALSE, tried |-> NoCalls, calls |-> NoCalls,
     acks |-> NoCalls, resp |-> NoResponse]

\* jsonify(...), code for /webhook
WebhookResponse(code, status, data, flags) ==
    [code |-> code, status |-> status, toolCallId |-> "", result |-> "", data |-> data,
     flags |-> flags]

\* jsonify({'results': [{'toolCallId': ..., 'result': ...}]}), 200
ToolResponse(code, toolCallId, result) ==
    [code |-> code, status |-> "", toolCallId |-> toolCallId, result |-> result,
     data |-> EmptyDict, flags |-> NoFlags]

Answer(q, resp) == [q EXCEPT !.pc = "done", !.resp = resp]

\* The except branch of webhook (lines 628-630).
WebhookError(q) == Answer(q, WebhookResponse(500, "error", EmptyDict, NoFlags))

(***************************************************************************)
(* /webhook: classification and extraction (lines 497-559).                *)
(***************************************************************************)
\* data.get('message', {}).get('type', 'unknown')
message_type(b) == Get(b.message, "type", "unknown")

\* A webhook without the test of line 504: every message type is processed.
EveryTypeProcessed(t) == TRUE

\* The test of line 504, negated.
IsEndOfCallReport(t) == t = "end-of-call-report"

\* data.get('message', {}).get('call', {}).get('id', '')
call_id_of(b) == Get(b.message, "call_id", "")

\* data.get('message', {}).get('call', {}).get('customer', {}).get('number', '')
customer_number_of(b) == Get(b.message, "number", <<>>)

\* not lead_data (line 513): no structured output, or an empty one
NoLeadData(b) == b.shape = "absent" \/ (b.shape = "dict" /\ b.result = EmptyDict)

\* appointment_datetime_raw (line 524)
appointment_datetime_raw(stored_appointment, lead_data) ==
    Or(Get(stored_appointment, "appointment_datetime", ""),
       Get(lead_data, "appointment_datetime", ""))

\* appointment_datetime_formatted (lines 525-533)
appointment_datetime_formatted(stored_appointment, raw) ==
    LET formatted == Get(stored_appointment, "appointment_datetime_formatted", "")
    IN  IF Truthy(raw) /\ ~Truthy(formatted) THEN FormatDisplay(raw) ELSE formatted

\* first_name and last_name (lines 537-546)
lead_name(lead_data) ==
    LET first_name == Get(lead_data, "first_name", <<>>)
        last_name == Get(lead_data, "last_name", <<>>)
        full_name == OrText(Get(lead_data, "name", <<>>),
                            Get(lead_data, "customer_name", <<>>))
        name_parts == SplitFirst(Strip(full_name))
    IN  IF first_name = <<>> /\ last_name = <<>> /\ full_name # <<>>
        THEN [first_name |-> IF name_parts # <<>> THEN name_parts[1] ELSE <<>>,
              last_name |-> IF Len(name_parts) > 1 THEN name_parts[2] ELSE <<>>]
        ELSE [first_name |-> first_name, last_name |-> last_name]

\* sheet_data (lines 548-557)
sheet_data(lead_data, customer_number, formatted) ==
    [first_name |-> lead_name(lead_data).first_name,
     last_name |-> lead_name(lead_data).last_name,
     phone_number |-> OrText(Get(lead_data, "phone_number", <<>>), customer_number),
     address |-> Get(lead_data, "property_address", <<>>),
     referral_source |-> Get(lead_data, "referral_source", ""),
     issue_summary |->
        Or(Or(Get(lead_data, "issue_summary", ""), Get(lead_data, "issueSummary", "")),
           Str(Get(lead_data, "urgency", "standard")) \o " - "
           \o Str(Get(lead_data, "damage_type", "Not specified"))),
     urgency |-> Get(lead_data, "urgency", "standard"),
     appointment_datetime |-> formatted]

\* Lines 497-559: parse, classify, read the appointment cache, build the lead.
webhook_begin(b) ==
    /\ LET q == NewRequest("webhook", b)
           call_id == call_id_of(b)
           stored_appointment == Get(appointment_storage, call_id, EmptyDict)
           raw == appointment_datetime_raw(stored_appointment, b.result)
           formatted == appointment_datetime_formatted(stored_appointment, raw)
       IN  reqs' = Append(reqs,
             IF ~b.json THEN WebhookError(q)
             ELSE IF ~IsEndOfCallReport(message_type(b))
             THEN Answer(q, WebhookResponse(200, "ignored", EmptyDict, NoFlags))
             ELSE IF NoLeadData(b)
             THEN Answer(q, WebhookResponse(400, "error", EmptyDict, NoFlags))
             ELSE IF b.shape # "dict" THEN WebhookError(q)
             ELSE [q EXCEPT !.pc = "sheets", !.call_id = call_id,
                            !.stored = stored_appointment, !.raw = raw,
                            !.lead = sheet_data(b.result, customer_number_of(b),
                                                formatted)])
    /\ UNCHANGED <<appointment_storage, config>>

(***************************************************************************)
(* /webhook: the sinks (lines 561-611).                                    *)
(***************************************************************************)
\* What an outbound call can do: 200, another status, or raise / time out.
Outcomes == {"ok", "error", "exception"}

\* The outcomes of a sink that posts only when it is configured.
PostOutcomes(configured) == IF configured THEN Outcomes ELSE {"skipped"}

\* The request after one sink: its flag, whether the configured sink was tried
\* (tried), whether its request reached the provider (calls) and whether the
\* provider accepted it (acks).
Deliver(q, sink, o, pc) ==
    [q EXCEPT !.pc = pc,
              !.tried[sink] = @ + (IF o # "skipped" THEN 1 ELSE 0),
              !.calls[sink] = @ + (IF o \in Outcomes THEN 1 ELSE 0),
              !.acks[sink] = @ + (IF o = "ok" THEN 1 ELSE 0),
              !.flags[sink] = (o = "ok")]

\* Lines 561-574: requests.post(APPS_SCRIPT_URL, ...)
webhook_sheets(r) ==
    /\ reqs[r].ep = "webhook"
    /\ reqs[r].pc = "sheets"
    /\ \E o \in PostOutcomes(config.APPS_SCRIPT_URL) :
         reqs' = [reqs EXCEPT ![r] = Deliver(@, "sheets", o, "albiware")]
    /\ UNCHANGED <<appointment_storage, config>>

\* Length of the longest prefix of s without a comma.
RECURSIVE SegmentLen(_)
SegmentLen(s) == IF s = <<>> \/ Head(s) = "," THEN 0 ELSE 1 + SegmentLen(Tail(s))

\* str.split(',')
RECURSIVE SplitComma(_)
SplitComma(s) ==
    LET n == SegmentLen(s)
    IN  IF n = Len(s) THEN <<s>>
        ELSE <<SubSeq(s, 1, n)>> \o SplitComma(SubSeq(s, n + 2, Len(s)))

\* str.split(): the whitespace-separated tokens
RECURSIVE Split(_)
Split(s) ==
    LET t == LStrip(s)
        n == TokenLen(t)
    IN  IF t = <<>> THEN <<>> ELSE <<SubSeq(t, 1, n)>> \o Split(SubSeq(t, n + 1, Len(t)))

\* parse_address (lines 80-110)
parse_address(address_string) ==
    LET raw_parts == SplitComma(address_string)
        parts == [i \in DOMAIN raw_parts |-> Strip(raw_parts[i])]
        state_zip == Split(Strip(parts[3]))
    IN  IF address_string = <<>>
        THEN [address1 |-> address_string, city |-> <<>>, state |-> <<>>, zipCode |-> <<>>]
        ELSE IF Len(parts) >= 3
        THEN [address1 |-> parts[1], city |-> parts[2],
              state |-> IF Len(state_zip) >= 1 THEN state_zip[1] ELSE <<>>,
              zipCode |-> IF Len(state_zip) >= 2 THEN state_zip[2] ELSE <<>>]
        ELSE IF Len(parts) = 2
        THEN [address1 |-> parts[1], city |-> parts[2], state |-> <<>>, zipCode |-> <<>>]
        ELSE [address1 |-> address_string, city |-> <<>>, state |-> <<>>, zipCode |-> <<>>]

\* The address parts of contact_data (lines 224-233), built when the key is set.
Contact(q, o) == IF o = "skipped" THEN q.contact ELSE parse_address(q.lead.address)

\* A handler that goes back to the spreadsheet after the Albiware contact.
create_albiware_contact_then_sheets(r) ==
    /\ reqs[r].ep = "webhook"
    /\ reqs[r].pc = "albiware"
    /\ \E o \in PostOutcomes(config.ALBIWARE_API_KEY) :
         reqs' = [reqs EXCEPT ![r] =
                    [Deliver(@, "albiware", o, "sheets")
                       EXCEPT !.contact = Contact(reqs[r], o)]]
    /\ UNCHANGED <<appointment_storage, config>>

\* Lines 217-264, called at line 577.
create_albiware_contact(r) ==
    /\ reqs[r].ep = "webhook"
    /\ reqs[r].pc = "albiware"
    /\ \E o \in PostOutcomes(config.ALBIWARE_API_KEY) :
         reqs' = [reqs EXCEPT ![r] =
                    [Deliver(@, "albiware", o, "sms")
                       EXCEPT !.contact = Contact(reqs[r], o)]]
    /\ UNCHANGED <<appointment_storage, config>>

\* The recipients the loop of lines 318-332 sends to.
Recipients == {i \in DOMAIN config.TECHNICIAN_PHONES : Strip(config.TECHNICIAN_PHONES[i]) # <<>>}

\* The guard of line 268.
SmsConfigured == config.twilio_client /\ config.TECHNICIAN_PHONES[1] # <<>>

\* Lines 266-334, called at line 580.
send_sms_notification(r) ==
    /\ reqs[r].ep = "webhook"
    /\ reqs[r].pc = "sms"
    /\ IF ~SmsConfigured
       THEN reqs' = [reqs EXCEPT ![r] = Deliver(@, "sms", "skipped", "gcal")]
       ELSE IF reqs[r].lead.urgency = None
       THEN reqs' = [reqs EXCEPT ![r] = WebhookError([@ EXCEPT !.tried["sms"] = 1])]
       ELSE \E sent \in SUBSET Recipients :
              reqs' = [reqs EXCEPT ![r] =
                         [@ EXCEPT !.pc = "gcal",
                                   !.tried["sms"] = 1,
                                   !.calls["sms"] = Cardinality(Recipients),
                                   !.acks["sms"] = Cardinality(sent),
                                   !.flags["sms"] = (Cardinality(sent) > 0)]]
    /\ UNCHANGED <<appointment_storage, config>>

\* The outcomes of a calendar sink: it posts when it is configured and the
\* raw datetime parses.
CalendarOutcomes(configured, raw) ==
    IF ~configured THEN {"skipped"}
    ELSE IF ~fromisoformat(ReplaceZ(raw)).ok THEN {"unparsed"}
    ELSE Outcomes

\* Lines 582-602 and 405-476.
create_calendar_event(r) ==
    /\ reqs[r].ep = "webhook"
    /\ reqs[r].pc = "gcal"
    /\ IF Truthy(reqs[r].raw)
       THEN \E o \in CalendarOutcomes(config.calendar_service, reqs[r].raw) :
              reqs' = [reqs EXCEPT ![r] = Deliver(@, "gcal", o, "albcal")]
       ELSE reqs' = [reqs EXCEPT ![r].pc = "cleanup"]
    /\ UNCHANGED <<appointment_storage, config>>

\* Lines 604-609 and 112-183.
create_albiware_calendar_event(r) ==
    /\ reqs[r].ep = "webhook"
    /\ reqs[r].pc = "albcal"
    /\ \E o \in CalendarOutcomes(config.ALBIWARE_API_KEY, reqs[r].raw) :
         reqs' = [reqs EXCEPT ![r] = Deliver(@, "albcal", o, "cleanup")]
    /\ UNCHANGED <<appointment_storage, config>>

(***************************************************************************)
(* /webhook: clean-up and response (lines 613-630).                        *)
(***************************************************************************)
Success(q) == Answer(q, WebhookResponse(200, "success", q.lead, q.flags))

\* a cleanup that empties the dict instead of deleting the one key
WithoutAll(d, k) == [x \in DOMAIN d \ (DOMAIN d \cup {k}) |-> d[x]]

\* dict without one key
Without(d, k) == [x \in DOMAIN d \ {k} |-> d[x]]

\* Line 614: call_id and call_id in appointment_storage
webhook_cleanup(r) ==
    /\ reqs[r].ep = "webhook"
    /\ reqs[r].pc = "cleanup"
    /\ reqs' = [reqs EXCEPT ![r] =
                  IF @.call_id # "" /\ @.call_id \in DOMAIN appointment_storage
                  THEN [@ EXCEPT !.pc = "del"]
                  ELSE Success(@)]
    /\ UNCHANGED <<appointment_storage, config>>

\* Lines 615-626: del appointment_storage[call_id] raises KeyError when another
\* handler deleted the key after the test of line 614.
webhook_del(r) ==
    /\ reqs[r].ep = "webhook"
    /\ reqs[r].pc = "del"
    /\ IF reqs[r].call_id \in DOMAIN appointment_storage
       THEN /\ appointment_storage' = Without(appointment_storage, reqs[r].call_id)
            /\ reqs' = [reqs EXCEPT ![r] = Success(@)]
       ELSE /\ reqs' = [reqs EXCEPT ![r] = WebhookError(@)]
            /\ UNCHANGED appointment_storage
    /\ UNCHANGED config

(***************************************************************************)
(* The tool endpoints share the extraction of lines 640-659 / 715-734.     *)
(***************************************************************************)
ToolBody(message, tool, tool_call, argshape, args) ==
    Body(TRUE, message, "absent", EmptyDict, tool, tool_call, argshape, args)

\* tool_call_id once the request format is known
tool_call_id_of(b) ==
    IF b.tool = "list" THEN Get(b.tool_call, "id", "unknown") ELSE "function-call"

InvalidFormat == ToolResponse(400, "", "Invalid request format")

AvailabilityApology ==
    "I apologize, but I'm having trouble accessing our calendar right now. Let me transfer you to someone who can help you schedule an appointment."

AvailabilitySlots == "Here are our next available appointment times:"

AvailabilityFailure ==
    "I'm having trouble checking availability right now. Let me transfer you to our scheduling team."

BookConfirmation ==
    "Confirmation sent! You'll receive a text message shortly with all the appointment details."

BookFailure ==
    "I'm having trouble booking that appointment. Let me transfer you to someone who can help."

CancelHandoff ==
    "I understand you need to cancel your appointment. Let me transfer you to our scheduling team who can help you with that."

RescheduleHandoff ==
    "I understand you need to reschedule. Let me transfer you to our scheduling team who can help you find a new time."

RequestFailure ==
    "I'm having trouble with that request. Let me transfer you to someone who can help."

\* What get_available_slots (lines 336-403) returns: no slot when the
\* calendar is not configured or the lookup raises, else what the calendar
\* leaves free.
SlotResults == IF config.calendar_service THEN {"none", "some"} ELSE {"none"}

\* Lines 632-702.
check_availability(b) ==
    /\ LET q == NewRequest("check-availability", b)
       IN  \E slots \in SlotResults :
             reqs' = Append(reqs,
               IF ~b.json THEN Answer(q, ToolResponse(200, "unknown", AvailabilityFailure))
               ELSE IF b.tool = "none" THEN Answer(q, InvalidFormat)
               ELSE IF b.argshape # "dict"
               THEN Answer(q, ToolResponse(200, tool_call_id_of(b), AvailabilityFailure))
               ELSE Answer(q, ToolResponse(200, tool_call_id_of(b),
                                IF slots = "none" THEN AvailabilityApology
                                ELSE AvailabilitySlots)))
    /\ UNCHANGED <<appointment_storage, config>>

\* ' '.join(parts)
RECURSIVE JoinSpace(_)
JoinSpace(parts) ==
    IF parts = <<>> THEN <<>>
    ELSE IF Len(parts) = 1 THEN parts[1]
    ELSE parts[1] \o <<" ">> \o JoinSpace(Tail(parts))

\* display_time (lines 758-767)
display_time(appointment_datetime) ==
    IF Truthy(appointment_datetime) THEN FormatDisplay(appointment_datetime)
    ELSE "your scheduled time"

\* customer_phone (lines 772-775)
customer_phone(phone) == IF StartsWithPlus(phone) THEN phone ELSE <<"+", "1">> \o phone

\* sms_data (lines 770-785)
sms_data(function_args) ==
    LET name_parts == Split(Get(function_args, "customer_name", <<>>))
        urgency == Get(function_args, "urgency", "standard")
    IN  [first_name |-> IF name_parts # <<>> THEN name_parts[1] ELSE <<>>,
         last_name |-> IF Len(name_parts) > 1 THEN JoinSpace(Tail(name_parts)) ELSE <<>>,
         phone_number |-> customer_phone(Get(function_args, "phone", <<>>)),
         address |-> Get(function_args, "address", <<>>),
         referral_source |-> "",
         issue_summary |-> Get(function_args, "damage_type", "") \o " - " \o urgency,
         urgency |-> urgency,
         appointment_datetime |->
            display_time(Get(function_args, "appointment_datetime", ""))]

\* The record of lines 789-792.
AppointmentRecord(appointment_datetime) ==
    [appointment_datetime |-> appointment_datetime,
     appointment_datetime_formatted |-> display_time(appointment_datetime)]

\* a store that has no effect
PutNothing(d, k, v) == [x \in DOMAIN d |-> d[x]]

\* appointment_storage[call_id] = record
Put(d, k, v) == [x \in DOMAIN d \cup {k} |-> IF x = k THEN v ELSE d[x]]

\* Lines 709-793: parse the tool call and store the appointment.
book_appointment_begin(b) ==
    /\ LET q == NewRequest("book-appointment", b)
           call_id == call_id_of(b)
           appointment_datetime == Get(b.args, "appointment_datetime", "")
       IN  IF ~b.json
           THEN /\ reqs' = Append(reqs,
                              Answer(q, ToolResponse(200, "unknown", BookFailure)))
                /\ UNCHANGED appointment_storage
           ELSE IF b.tool = "none"
           THEN /\ reqs' = Append(reqs, Answer(q, InvalidFormat))
                /\ UNCHANGED appointment_storage
           ELSE IF b.argshape = "badstr"
           THEN /\ reqs' = Append(reqs,
                              Answer(q, ToolResponse(200, tool_call_id_of(b), BookFailure)))
                /\ UNCHANGED appointment_storage
           ELSE /\ reqs' = Append(reqs,
                              [q EXCEPT !.pc = "customer_sms", !.call_id = call_id,
                                        !.raw = appointment_datetime,
                                        !.lead = sms_data(b.args)])
                /\ appointment_storage' =
                     IF call_id # ""
                     THEN Put(appointment_storage, call_id,
                              AppointmentRecord(appointment_datetime))
                     ELSE appointment_storage
    /\ UNCHANGED config

\* The outcomes of send_customer_sms (lines 185-215).
CustomerSmsOutcomes(customer_data) ==
    IF ~config.twilio_client THEN {"skipped"}
    ELSE IF customer_data.phone_number = <<>> THEN {"no-phone"}
    ELSE Outcomes

\* Lines 795-810: send the confirmation SMS and answer.
send_customer_sms(r) ==
    /\ reqs[r].ep = "book-appointment"
    /\ reqs[r].pc = "customer_sms"
    /\ \E o \in CustomerSmsOutcomes(reqs[r].lead) :
         reqs' = [reqs EXCEPT ![r] =
                    Answer([@ EXCEPT !.tried["customer_sms"] = IF o # "skipped" THEN 1 ELSE 0,
                                     !.calls["customer_sms"] = IF o \in Outcomes THEN 1 ELSE 0,
                                     !.acks["customer_sms"] = IF o = "ok" THEN 1 ELSE 0,
                                     !.sms_sent = (o = "ok")],
                           ToolResponse(200, tool_call_id_of(@.body), BookConfirmation))]
    /\ UNCHANGED <<appointment_storage, config>>

\* tool_call_id of the placeholder handlers (lines 831-835 / 862-866)
placeholder_tool_call_id(b) ==
    IF b.tool = "list" THEN Get(b.tool_call, "id", "unknown") ELSE "unknown"

\* cancel_appointment, had it also dropped the call's cached appointment.
cancel_appointment_clearing(b) ==
    /\ LET q == NewRequest("cancel-appointment", b)
       IN  reqs' = Append(reqs,
             IF ~b.json THEN Answer(q, ToolResponse(200, "unknown", RequestFailure))
             ELSE Answer(q, ToolResponse(200, placeholder_tool_call_id(b), CancelHandoff)))
    /\ appointment_storage' = Without(appointment_storage, call_id_of(b))
    /\ UNCHANGED config

\* Lines 823-852.
cancel_appointment(b) ==
    /\ LET q == NewRequest("cancel-appointment", b)
       IN  reqs' = Append(reqs,
             IF ~b.json THEN Answer(q, ToolResponse(200, "unknown", RequestFailure))
             ELSE Answer(q, ToolResponse(200, placeholder_tool_call_id(b), CancelHandoff)))
    /\ UNCHANGED <<appointment_storage, config>>

\* Lines 854-883.
reschedule_appointment(b) ==
    /\ LET q == NewRequest("reschedule-appointment", b)
       IN  reqs' = Append(reqs,
             IF ~b.json THEN Answer(q, ToolResponse(200, "unknown", RequestFailure))
             ELSE Answer(q, ToolResponse(200, placeholder_tool_call_id(b), RescheduleHandoff)))
    /\ UNCHANGED <<appointment_storage, config>>

(***************************************************************************)
(* The platform's requests.                                                *)
(***************************************************************************)
JaneDoe == <<"J", " ", "D">>

ToolCall(call_id, args) ==
    ToolBody(MessageOf("tool-calls", call_id), "list", [id |-> "t1"], "dict", args)

NoToolCall == ToolBody(EmptyDict, "none", EmptyDict, "dict", EmptyDict)

BadArguments ==
    ToolBody(MessageOf("tool-calls", "c1"), "list", [id |-> "t1"], "badstr", EmptyDict)

Booking(appointment_datetime) ==
    [customer_name |-> JaneDoe, phone |-> Phone,
     appointment_datetime |-> appointment_datetime]

\* The /book-appointment bodies of Spec.
BookBodies ==
    { ToolCall("c1", Booking(IsoZ)), ToolCall("c1", Booking(NotIso)),
      ToolCall("c2", Booking(IsoZ)), ToolCall("", Booking(IsoZ)),
      ToolCall("c1", [customer_name |-> JaneDoe]), BadArguments, NoToolCall }

\* The bodies Spec sends to the other tool endpoints.
ToolBodies == {ToolCall("c1", EmptyDict), NoToolCall, NoJsonBody}

\* The tool bodies of SpecInputs.
AllToolBodies ==
    {NoJsonBody, NoToolCall, BadArguments}
    \cup {ToolCall(c, a) : c \in CallIds \cup {""},
                           a \in {Booking(IsoZ), Booking(NotIso), [customer_name |-> JaneDoe]}}
    \cup {ToolBody(MessageOf("tool-calls", "c1"), "list", EmptyDict, "jsonstr",
                   Booking(IsoLocal))}
    \cup {ToolBody(MessageOf("function-call", "c1"), "function", EmptyDict, "dict",
                   [customer_name |-> JaneDoe, phone |-> <<"+", "1", "7">>,
                    appointment_datetime |-> IsoLocal])}

\* Requests whose handler has not answered yet.
InFlight == {r \in DOMAIN reqs : reqs[r].pc # "done"}

(***************************************************************************)
(* Spec: up to MaxRequests requests, handled concurrently.                 *)
(***************************************************************************)
Admit == Len(reqs) < MaxRequests

Init ==
    /\ appointment_storage = EmptyDict
    /\ config \in Deployments
    /\ reqs = <<>>

Next ==
    \/ \E b \in WebhookBodies : Admit /\ webhook_begin(b)
    \/ \E b \in ToolBodies : Admit /\ check_availability(b)
    \/ \E b \in BookBodies : Admit /\ book_appointment_begin(b)
    \/ \E b \in ToolBodies : Admit /\ cancel_appointment(b)
    \/ \E b \in ToolBodies : Admit /\ reschedule_appointment(b)
    \/ \E r \in DOMAIN reqs : webhook_sheets(r)
    \/ \E r \in DOMAIN reqs : create_albiware_contact(r)
    \/ \E r \in DOMAIN reqs : send_sms_notification(r)
    \/ \E r \in DOMAIN reqs : create_calendar_event(r)
    \/ \E r \in DOMAIN reqs : create_albiware_calendar_event(r)
    \/ \E r \in DOMAIN reqs : webhook_cleanup(r)
    \/ \E r \in DOMAIN reqs : webhook_del(r)
    \/ \E r \in DOMAIN reqs : send_customer_sms(r)

Spec == Init /\ [][Next]_vars

(***************************************************************************)
(* SpecInputs: every request body under every deployment, one request at a *)
(* time and any number of them; reqs holds the latest request only.        *)
(***************************************************************************)
AdmitInput == reqs = <<>>

\* The answered request leaves the record; the process keeps running.
Forget ==
    /\ reqs # <<>>
    /\ InFlight = {}
    /\ reqs' = <<>>
    /\ UNCHANGED <<appointment_storage, config>>

InitInputs ==
    /\ appointment_storage = EmptyDict
    /\ config \in AllDeployments
    /\ reqs = <<>>

NextInputs ==
    \/ \E b \in AllWebhookBodies : AdmitInput /\ webhook_begin(b)
    \/ \E b \in AllToolBodies : AdmitInput /\ check_availability(b)
    \/ \E b \in AllToolBodies : AdmitInput /\ book_appointment_begin(b)
    \/ \E b \in AllToolBodies : AdmitInput /\ cancel_appointment(b)
    \/ \E b \in AllToolBodies : AdmitInput /\ reschedule_appointment(b)
    \/ \E r \in DOMAIN reqs : webhook_sheets(r)
    \/ \E r \in DOMAIN reqs : create_albiware_contact(r)
    \/ \E r \in DOMAIN reqs : send_sms_notification(r)
    \/ \E r \in DOMAIN reqs : create_calendar_event(r)
    \/ \E r \in DOMAIN reqs : create_albiware_calendar_event(r)
    \/ \E r \in DOMAIN reqs : webhook_cleanup(r)
    \/ \E r \in DOMAIN reqs : webhook_del(r)
    \/ \E r \in DOMAIN reqs : send_customer_sms(r)
    \/ Forget

SpecInputs == InitInputs /\ [][NextInputs]_vars

(***************************************************************************)
(* SpecExtract: end-of-call reports whose structured output varies field   *)
(* by field, one request at a time, under one deployment with the Albiware *)
(* key set.                                                                *)
(***************************************************************************)
NameChars == {"J", "Q", " "}

\* The strings over NameChars of length at most n.
Texts(n) == UNION {[1..k -> NameChars] : k \in 0..n}

\* Structured outputs that vary the name fields.
NameLeads ==
    {[first_name |-> f, last_name |-> l, name |-> n, customer_name |-> c] :
        f \in {<<>>, Jane}, l \in {<<>>, Doe}, n \in Texts(MaxNameLen),
        c \in {<<>>, <<"Q">>}}

AddressChars == {"a", ",", " "}

\* Structured outputs whose property_address is any string over AddressChars
\* of length at most MaxAddressLen.
AddressLeads ==
    {[first_name |-> Jane, property_address |-> a] :
        a \in UNION {[1..k -> AddressChars] : k \in 0..MaxAddressLen}}

ExtractLeads == NameLeads \cup AddressLeads \cup {LeadWithAppointment}

\* The caller's number in the call metadata.
CallerNumber == <<"5", "5">>

\* Reports that vary the two sources of the phone number, each absent, empty
\* or present.
PhoneBodies ==
    {WebhookBody(m, "dict", l) :
        m \in {[type |-> "end-of-call-report", call_id |-> "c1"],
               [type |-> "end-of-call-report", call_id |-> "c1", number |-> <<>>],
               [type |-> "end-of-call-report", call_id |-> "c1", number |-> CallerNumber]},
        l \in {LeadJane, [first_name |-> Jane, phone_number |-> <<>>],
               [first_name |-> Jane, phone_number |-> Phone]}}

\* The transcript of the call, in the report next to the structured output.
Transcript == "Caller reports a burst pipe in the kitchen"

SummaryKeys == {"issue_summary", "issueSummary", "urgency", "damage_type"}

\* Structured outputs with any subset of the fields the summary is built
\* from; issue_summary is empty or not when it is present.
SummaryLeads ==
    {[k \in keys \cup {"first_name"} |->
        CASE k = "first_name" -> Jane
          [] k = "issue_summary" -> explicit
          [] k = "issueSummary" -> "Leak under the sink"
          [] k = "urgency" -> "emergency"
          [] k = "damage_type" -> "water"] :
     keys \in SUBSET SummaryKeys, explicit \in {"", "Burst pipe in kitchen"}}

\* Reports that vary the sources of the issue summary, with or without a
\* transcript.
SummaryBodies ==
    {WebhookBody(m, "dict", l) :
        m \in {[type |-> "end-of-call-report", call_id |-> "c1"],
               [type |-> "end-of-call-report", call_id |-> "c1",
                transcript |-> Transcript]},
        l \in SummaryLeads}

ExtractBodies ==
    {EndOfCall("c1", l) : l \in ExtractLeads} \cup PhoneBodies \cup SummaryBodies

\* The phone numbers a caller gives to /book-appointment.
Parenthesized ==
    <<"(", "7", "0", "2", ")", " ", "5", "5", "5", "-", "1", "2", "3", "4">>

Dashed == <<"7", "0", "2", "-", "5", "5", "5", "-", "1", "2", "3", "4">>

TenDigits == <<"7", "0", "2", "5", "5", "5", "1", "2", "3", "4">>

E164 == <<"+", "1">> \o TenDigits

\* /book-appointment bodies that vary the phone argument; they carry no call
\* id, so nothing is stored.
PhoneBookings ==
    {ToolCall("", [customer_name |-> JaneDoe, phone |-> p]) :
        p \in {<<>>, Parenthesized, Dashed, TenDigits, E164}}

ExtractDeployment ==
    [APPS_SCRIPT_URL |-> FALSE, ALBIWARE_API_KEY |-> TRUE, twilio_client |-> FALSE,
     calendar_service |-> FALSE, TECHNICIAN_PHONES |-> << <<>> >>]

InitExtract ==
    /\ appointment_storage = EmptyDict
    /\ config = ExtractDeployment
    /\ reqs = <<>>

NextExtract ==
    \/ AdmitInput /\ \E b \in ExtractBodies : webhook_begin(b)
    \/ AdmitInput /\ \E b \in PhoneBookings : book_appointment_begin(b)
    \/ \E r \in DOMAIN reqs : send_customer_sms(r)
    \/ \E r \in DOMAIN reqs : webhook_sheets(r)
    \/ \E r \in DOMAIN reqs : create_albiware_contact(r)
    \/ \E r \in DOMAIN reqs : send_sms_notification(r)
    \/ \E r \in DOMAIN reqs : create_calendar_event(r)
    \/ \E r \in DOMAIN reqs : create_albiware_calendar_event(r)
    \/ \E r \in DOMAIN reqs : webhook_cleanup(r)
    \/ Forget

SpecExtract == InitExtract /\ [][NextExtract]_vars

(***************************************************************************)
(* get_available_slots (lines 336-403).  Times are minutes counted from    *)
(* start_date, the midnight that begins tomorrow; timedelta arithmetic on  *)
(* start_date keeps its UTC offset, so the count is uniform.  A lookup is  *)
(* what events().list(...).execute() does: it raises, or it returns items; *)
(* an item is an event [ok, start, end], ok being FALSE when its start or  *)
(* end cannot be read (lines 377-378 raise on it).                         *)
(***************************************************************************)
\* BUSINESS_HOURS after line 50: Monday (0) to Friday, Saturday (5), Sunday
BUSINESS_HOURS(weekday) ==
    IF weekday \in 0..4 THEN [open |-> TRUE, start |-> 8, end |-> 18]
    ELSE IF weekday = 5 THEN [open |-> TRUE, start |-> 9, end |-> 16]
    ELSE [open |-> FALSE, start |-> 0, end |-> 0]

APPOINTMENT_DURATION_MINUTES == 120

\* days_ahead=7 (lines 336, 666)
days_ahead == 7

\* available_slots[:10] (line 399)
SlotLimit == 10

\* timedelta(days=1) and one hour, in minutes
MinutesPerDay == 1440

MinutesPerHour == 60

\* an overlap test that only asks whether the slot starts inside the event
OverlapsStartOnly(slot_start, slot_end, event) ==
    event.start <= slot_start /\ slot_start < event.end

\* not (slot_end <= event_start or slot_start >= event_end) (line 387)
Overlaps(slot_start, slot_end, event) ==
    ~(slot_end <= event.start \/ slot_start >= event.end)

\* The hours of the days from start_date to end_date, in order (lines 364-371).
HoursAhead == [i \in 1..(days_ahead * 24) |-> (i - 1) * MinutesPerHour]

\* current_date.weekday() of the day the minute lies in
WeekdayAt(start_weekday, minute) == (start_weekday + minute \div MinutesPerDay) % 7

HourAt(minute) == (minute % MinutesPerDay) \div MinutesPerHour

\* hour in range(hours['start'], hours['end']) on an open day (lines 365-370)
IsBusinessHour(start_weekday, minute) ==
    LET hours == BUSINESS_HOURS(WeekdayAt(start_weekday, minute))
    IN  hours.open /\ hours.start <= HourAt(minute) /\ HourAt(minute) < hours.end

\* The loop of lines 376-389 for one slot reaches an event it cannot read
\* before it reaches an overlapping one.
SlotRaises(existing_events, slot_start) ==
    \E i \in DOMAIN existing_events :
        /\ ~existing_events[i].ok
        /\ \A j \in 1..(i - 1) :
              existing_events[j].ok
              /\ ~Overlaps(slot_start, slot_start + APPOINTMENT_DURATION_MINUTES,
                           existing_events[j])

\* is_available after the loop of lines 376-389
IsAvailable(existing_events, slot_start) ==
    \A i \in DOMAIN existing_events :
        ~Overlaps(slot_start, slot_start + APPOINTMENT_DURATION_MINUTES,
                  existing_events[i])

\* The dict of lines 392-395: isoformat() as the minute, the display string
\* as the weekday, hour and minute it spells.
Slot(start_weekday, slot_start) ==
    [datetime |-> slot_start,
     display |-> <<WeekdayAt(start_weekday, slot_start), HourAt(slot_start),
                   slot_start % MinutesPerHour>>]

get_available_slots(calendar_service, start_weekday, lookup) ==
    LET Open(minute) == IsBusinessHour(start_weekday, minute)
        Free(minute) == IsAvailable(lookup.items, minute)
        slot_starts == SelectSeq(HoursAhead, Open)
        free == SelectSeq(slot_starts, Free)
        available_slots == [i \in DOMAIN free |-> Slot(start_weekday, free[i])]
    IN  IF ~calendar_service THEN <<>>
        ELSE IF lookup.raises THEN <<>>
        ELSE IF \E i \in DOMAIN slot_starts : SlotRaises(lookup.items, slot_starts[i])
        THEN <<>>
        ELSE SubSeq(available_slots, 1,
                    IF Len(available_slots) < SlotLimit THEN Len(available_slots)
                    ELSE SlotLimit)

\* What the handler of /check-availability saw of the calendar.
Availability(called, start_weekday, lookup, available_slots) ==
    [called |-> called, start_weekday |-> start_weekday, lookup |-> lookup,
     available_slots |-> available_slots]

\* Lines 632-702, with the calendar the lookup meets.
check_availability_on(b, start_weekday, lookup) ==
    /\ LET q == NewRequest("check-availability", b)
           available_slots ==
               get_available_slots(config.calendar_service, start_weekday, lookup)
       IN  reqs' = Append(reqs,
             IF ~b.json
             THEN Answer(q, ToolResponse(200, "unknown", AvailabilityFailure))
                  @@ Availability(FALSE, start_weekday, lookup, <<>>)
             ELSE IF b.tool = "none"
             THEN Answer(q, InvalidFormat)
                  @@ Availability(FALSE, start_weekday, lookup, <<>>)
             ELSE IF b.argshape # "dict"
             THEN Answer(q, ToolResponse(200, tool_call_id_of(b), AvailabilityFailure))
                  @@ Availability(FALSE, start_weekday, lookup, <<>>)
             ELSE Answer(q, ToolResponse(200, tool_call_id_of(b),
                              IF available_slots = <<>> THEN AvailabilityApology
                              ELSE AvailabilitySlots))
                  @@ Availability(TRUE, start_weekday, lookup, available_slots))
    /\ UNCHANGED <<appointment_storage, config>>

(***************************************************************************)
(* SpecSlots: /check-availability requests one after the other, against    *)
(* every calendar of up to MaxEvents events, starting on every weekday.    *)
(***************************************************************************)
MaxEvents == 2

Event(start, end) == [ok |-> TRUE, start |-> start, end |-> end]

\* An event without readable start or end.
Unreadable == [ok |-> FALSE, start |-> 0, end |-> 0]

\* Tomorrow 8:00-10:00, 9:30-10:30, all day, an empty event at 10:00, the day
\* after 16:00-20:00, and one event covering the whole range.
CalendarEvents ==
    { Event(8 * MinutesPerHour, 10 * MinutesPerHour),
      Event(9 * MinutesPerHour + 30, 10 * MinutesPerHour + 30),
      Event(0, MinutesPerDay),
      Event(10 * MinutesPerHour, 10 * MinutesPerHour),
      Event(MinutesPerDay + 16 * MinutesPerHour, MinutesPerDay + 20 * MinutesPerHour),
      Event(0, days_ahead * MinutesPerDay),
      Unreadable }

EventLists == UNION {[1..n -> CalendarEvents] : n \in 0..MaxEvents}

Lookups ==
    {[raises |-> TRUE, items |-> <<>>]}
    \cup {[raises |-> FALSE, items |-> items] : items \in EventLists}

SlotDeployments ==
    {c \in AllDeployments :
        /\ ~c.APPS_SCRIPT_URL /\ ~c.ALBIWARE_API_KEY /\ ~c.twilio_client}

InitSlots ==
    /\ appointment_storage = EmptyDict
    /\ config \in SlotDeployments
    /\ reqs = <<>>

NextSlots ==
    \/ AdmitInput /\ \E b \in ToolBodies, start_weekday \in 0..6, lookup \in Lookups :
                        check_availability_on(b, start_weekday, lookup)
    \/ Forget

SpecSlots == InitSlots /\ [][NextSlots]_vars

(***************************************************************************)
(* Vocabulary of the properties below.                                     *)
(***************************************************************************)
\* A webhook request the handler took to the sinks (it built sheet_data).
Dispatched(q) == q.ep = "webhook" /\ q.lead # EmptyDict

Answered(q) == q.pc = "done"

\* The body is an end-of-call report.
IsReport(b) == b.json /\ message_type(b) = "end-of-call-report"

\* Whether the handler of q has to attempt the sink under this deployment.
SinkDue(q, sink) ==
    CASE sink = "sheets" -> config.APPS_SCRIPT_URL
      [] sink = "albiware" -> config.ALBIWARE_API_KEY
      [] sink = "sms" -> SmsConfigured
      [] sink = "gcal" -> config.calendar_service /\ Truthy(q.raw)
      [] sink = "albcal" -> config.ALBIWARE_API_KEY /\ Truthy(q.raw)

\* Request r attempts a sink in this step.
AttemptsSink(r) ==
    /\ r \in DOMAIN reqs
    /\ r \in DOMAIN reqs'
    /\ \E s \in Sinks : reqs'[r].tried[s] > reqs[r].tried[s]

\* Request r is answered in this step.
AnsweredNow(r) ==
    /\ r \in DOMAIN reqs'
    /\ Answered(reqs'[r])
    /\ r \in DOMAIN reqs => ~Answered(reqs[r])

(***************************************************************************)
(* C1.  Idempotency: once an end-of-call report for a call id was answered *)
(* with success, a later delivery of the same payload attempts no sink.    *)
(***************************************************************************)
C1_DispatchedAtMostOnce ==
    [][\A r2 \in DOMAIN reqs :
         AttemptsSink(r2) =>
           ~\E r1 \in 1..(r2 - 1) :
                /\ Dispatched(reqs[r1])
                /\ Answered(reqs[r1])
                /\ reqs[r1].resp.status = "success"
                /\ reqs[r1].call_id # ""
                /\ reqs[r1].body = reqs[r2].body]_vars

(***************************************************************************)
(* C2.  Of the /webhook handlers in flight together for one call id, at    *)
(* most one has got past the idempotency check to the sinks.               *)
(***************************************************************************)
C2_OneConcurrentDispatch ==
    \A r1, r2 \in DOMAIN reqs :
        (/\ r1 # r2
         /\ Dispatched(reqs[r1]) /\ ~Answered(reqs[r1])
         /\ Dispatched(reqs[r2]) /\ ~Answered(reqs[r2])
         /\ reqs[r1].call_id # ""
         /\ reqs[r1].call_id = reqs[r2].call_id)
        => \/ \A s \in Sinks : reqs[r1].tried[s] = 0
           \/ \A s \in Sinks : reqs[r2].tried[s] = 0

(***************************************************************************)
(* C3.  A /webhook request whose message type is not 'end-of-call-report'  *)
(* is answered 200 'ignored' in the step that receives it, has attempted   *)
(* no sink, leaves appointment_storage as it was, and an answered request  *)
(* does nothing afterwards.                                                *)
(***************************************************************************)
C3_OtherTypesIgnored ==
    [][/\ \A r \in DOMAIN reqs' \ DOMAIN reqs :
            (/\ reqs'[r].ep = "webhook"
             /\ reqs'[r].body.json
             /\ message_type(reqs'[r].body) # "end-of-call-report")
            => /\ Answered(reqs'[r])
               /\ reqs'[r].resp.code = 200
               /\ reqs'[r].resp.status = "ignored"
               /\ reqs'[r].tried = NoCalls
               /\ reqs'[r].calls = NoCalls
               /\ appointment_storage' = appointment_storage
       /\ \A r \in DOMAIN reqs :
            Answered(reqs[r]) => r \in DOMAIN reqs' /\ reqs'[r] = reqs[r]]_vars

\* A status update was ignored while the cache held a booking.
C3_IgnoredWithBooking ==
    \E r \in DOMAIN reqs :
        /\ reqs[r].ep = "webhook"
        /\ message_type(reqs[r].body) = "status-update"
        /\ reqs[r].resp.status = "ignored"
        /\ reqs[r].calls = NoCalls
        /\ "c1" \in DOMAIN appointment_storage

(***************************************************************************)
(* C4.  Appointment bridging: when the handler of an end-of-call report    *)
(* that found a booked datetime d in the cache, and no appointment field   *)
(* in the structured output, answers, the lead carries d and the cache     *)
(* holds no record for the call id.                                        *)
(***************************************************************************)
C4_AppointmentBridged ==
    [][\A r \in DOMAIN reqs :
         (/\ AnsweredNow(r)
          /\ Dispatched(reqs[r])
          /\ "appointment_datetime" \in DOMAIN reqs[r].stored
          /\ Truthy(reqs[r].stored.appointment_datetime)
          /\ "appointment_datetime" \notin DOMAIN reqs[r].body.result)
         => /\ reqs'[r].raw = reqs[r].stored.appointment_datetime
            /\ reqs'[r].call_id \notin DOMAIN appointment_storage']_vars

(***************************************************************************)
(* C5.  An answered end-of-call request that reached dispatch attempted    *)
(* every sink that is configured (the calendars when there is an           *)
(* appointment) exactly once, and no other sink.                           *)
(***************************************************************************)
C5_EverySinkAttemptedOnce ==
    \A r \in DOMAIN reqs :
        (Dispatched(reqs[r]) /\ Answered(reqs[r]))
        => \A s \in Sinks :
             reqs[r].tried[s] = (IF SinkDue(reqs[r], s) THEN 1 ELSE 0)

(***************************************************************************)
(* C6.  An end-of-call request that reached dispatch is answered 200       *)
(* 'success', and each per-sink flag of the response tells whether that    *)
(* sink accepted the lead.                                                 *)
(***************************************************************************)
C6_PartialFailureIsSuccess ==
    \A r \in DOMAIN reqs :
        (Dispatched(reqs[r]) /\ Answered(reqs[r]))
        => /\ reqs[r].resp.code = 200
           /\ reqs[r].resp.status = "success"
           /\ \A s \in Sinks : reqs[r].resp.flags[s] = (reqs[r].acks[s] > 0)

(***************************************************************************)
(* C7.  Every answer of a tool endpoint is 200 with a toolCallId and a     *)
(* result string.                                                          *)
(***************************************************************************)
C7_ToolEndpointsAnswer200 ==
    \A r \in DOMAIN reqs :
        (reqs[r].ep # "webhook" /\ Answered(reqs[r]))
        => /\ reqs[r].resp.code = 200
           /\ reqs[r].resp.toolCallId # ""
           /\ reqs[r].resp.result # ""

(***************************************************************************)
(* C8.  /webhook answers 400 only to a body that is absent or not JSON,    *)
(* and answers 200 to every parseable body that is an ignored kind or an   *)
(* end-of-call report without structured output.                           *)
(***************************************************************************)
C8_BadRequestOnlyUnparseable ==
    \A r \in DOMAIN reqs :
        (reqs[r].ep = "webhook" /\ Answered(reqs[r]))
        => /\ reqs[r].resp.code = 400 => ~reqs[r].body.json
           /\ (reqs[r].body.json /\ (~IsReport(reqs[r].body) \/ NoLeadData(reqs[r].body)))
                => reqs[r].resp.code = 200

(***************************************************************************)
(* C9.  Every end-of-call report with a parseable body, whatever its       *)
(* structured output lacks, yields a lead and goes to the sinks.           *)
(***************************************************************************)
C9_ExtractionNeverAborts ==
    \A r \in DOMAIN reqs :
        (reqs[r].ep = "webhook" /\ IsReport(reqs[r].body)) => Dispatched(reqs[r])

(***************************************************************************)
(* C10.  When the handler of an end-of-call report that arrived while the  *)
(* cache held a record for its call id answers, on whichever path, the     *)
(* cache holds no record for that call id.                                 *)
(***************************************************************************)
C10_RecordGoneOnResponse ==
    [][\A r \in DOMAIN reqs' :
         (/\ AnsweredNow(r)
          /\ reqs'[r].ep = "webhook"
          /\ IsReport(reqs'[r].body)
          /\ IF r \in DOMAIN reqs
             THEN reqs[r].stored # EmptyDict
             ELSE call_id_of(reqs'[r].body) \in DOMAIN appointment_storage)
         => call_id_of(reqs'[r].body) \notin DOMAIN appointment_storage']_vars

(***************************************************************************)
(* C11.  Reading the cache takes the record: for each call id, no more     *)
(* /webhook handlers have obtained a cached appointment record than        *)
(* bookings have stored one, so one booking is consumed by at most one     *)
(* handler.                                                                *)
(***************************************************************************)
\* The /webhook handlers that obtained a cached record for call id c.
Takers(c) ==
    {r \in DOMAIN reqs :
        reqs[r].ep = "webhook" /\ reqs[r].call_id = c /\ reqs[r].stored # EmptyDict}

\* The /book-appointment handlers that stored a record for call id c.
Bookers(c) ==
    {r \in DOMAIN reqs : reqs[r].ep = "book-appointment" /\ reqs[r].call_id = c}

C11_RecordTakenOnce ==
    \A c \in CallIds : Cardinality(Takers(c)) <= Cardinality(Bookers(c))

(***************************************************************************)
(* C12.  An answered end-of-call request that reached dispatch invoked     *)
(* each configured calendar sink if and only if its appointment datetime   *)
(* (cached or from the structured output) is non-empty; without an         *)
(* appointment both calendar flags of the response are false.              *)
(***************************************************************************)
CalendarSinks == {"gcal", "albcal"}

\* The guards of lines 411 and 114.
CalendarConfigured(sink) ==
    IF sink = "gcal" THEN config.calendar_service ELSE config.ALBIWARE_API_KEY

C12_CalendarIffAppointment ==
    \A r \in DOMAIN reqs :
        (Dispatched(reqs[r]) /\ Answered(reqs[r]))
        => /\ \A s \in CalendarSinks :
                CalendarConfigured(s) => (reqs[r].tried[s] > 0 <=> Truthy(reqs[r].raw))
           /\ ~Truthy(reqs[r].raw) =>
                \A s \in CalendarSinks : ~reqs[r].resp.flags[s] /\ reqs[r].calls[s] = 0

(***************************************************************************)
(* C13.  Within one end-of-call request the sinks are called one after     *)
(* another in a fixed order.  SinksCalledInOrder(order) says: whenever a   *)
(* request calls a sink, it calls that sink for the first time, calls no   *)
(* other sink in the same step, and has not yet called any sink that comes *)
(* later in the order.                                                     *)
(***************************************************************************)
\* The order of lines 561-609: spreadsheet, CRM contact, SMS, calendars.
CodeOrder ==
    [sheets |-> 1, albiware |-> 2, sms |-> 3, gcal |-> 4, albcal |-> 5]

\* The order CRM contact, spreadsheet, SMS, calendars.
CrmFirstOrder ==
    [albiware |-> 1, sheets |-> 2, sms |-> 3, gcal |-> 4, albcal |-> 5]

SinksCalledInOrder(order) ==
    \A r \in DOMAIN reqs \cap DOMAIN reqs' :
      \A s \in Sinks :
        reqs'[r].calls[s] > reqs[r].calls[s]
        => /\ reqs[r].calls[s] = 0
           /\ \A t \in Sinks \ {s} :
                /\ reqs'[r].calls[t] = reqs[r].calls[t]
                /\ order[t] > order[s] => reqs[r].calls[t] = 0

\* As the claim states it: the CRM contact comes before the spreadsheet.
C13_CrmBeforeSpreadsheet == [][SinksCalledInOrder(CrmFirstOrder)]_vars

\* As the code does it: the spreadsheet comes before the CRM contact.
C13_SpreadsheetBeforeCrm == [][SinksCalledInOrder(CodeOrder)]_vars

\* A request that called all five sinks.
C13_AllSinksCalled ==
    \E r \in DOMAIN reqs :
        /\ Answered(reqs[r])
        /\ reqs[r].resp.code = 200
        /\ \A s \in Sinks : reqs[r].calls[s] > 0

(***************************************************************************)
(* C14.  Cache precedence: when the handler of an end-of-call report found *)
(* a cached record for the call id and the structured output carries an    *)
(* appointment datetime too, the datetime it passes to the calendar sinks  *)
(* is the cached one and the lead shows the cached display form.           *)
(***************************************************************************)
\* The structured output of the request carries an appointment datetime.
HasStructuredAppointment(q) ==
    /\ "appointment_datetime" \in DOMAIN q.body.result
    /\ Truthy(q.body.result.appointment_datetime)

C14_CachedDatetimeWins ==
    \A r \in DOMAIN reqs :
        (/\ Dispatched(reqs[r])
         /\ reqs[r].stored # EmptyDict
         /\ HasStructuredAppointment(reqs[r]))
        => /\ reqs[r].raw = reqs[r].stored.appointment_datetime
           /\ reqs[r].lead.appointment_datetime =
                reqs[r].stored.appointment_datetime_formatted

(***************************************************************************)
(* C15.  Name fallback: when both discrete name fields are empty and a     *)
(* combined name is present, the lead's first_name is the first            *)
(* whitespace-delimited token of the combined name and last_name is what   *)
(* follows it, without the surrounding whitespace (empty if nothing        *)
(* follows); when a discrete field is non-empty the lead has the discrete  *)
(* fields as they are.                                                     *)
(***************************************************************************)
\* The positions of s that hold a character other than whitespace.
Inked(s) == {i \in DOMAIN s : ~IsSpace(s[i])}

Lowest(S) == CHOOSE i \in S : \A j \in S : i <= j

Highest(S) == CHOOSE i \in S : \A j \in S : i >= j

\* The first whitespace-delimited token of s: from the first inked position
\* up to the position before the next whitespace.
FirstToken(s) ==
    IF Inked(s) = {} THEN <<>>
    ELSE LET from == Lowest(Inked(s))
             stops == {i \in DOMAIN s : i > from /\ IsSpace(s[i])}
             to == IF stops = {} THEN Len(s) ELSE Lowest(stops) - 1
         IN  SubSeq(s, from, to)

\* What follows the first token of s, from the next inked position to the
\* last one.
AfterFirstToken(s) ==
    IF Inked(s) = {} THEN <<>>
    ELSE LET from == Lowest(Inked(s))
             stops == {i \in DOMAIN s : i > from /\ IsSpace(s[i])}
             later == {i \in Inked(s) : stops # {} /\ i > Lowest(stops)}
         IN  IF later = {} THEN <<>> ELSE SubSeq(s, Lowest(later), Highest(Inked(s)))

\* The combined name of a structured output: name, else customer_name.
CombinedName(lead_data) ==
    IF Get(lead_data, "name", <<>>) # <<>> THEN lead_data.name
    ELSE Get(lead_data, "customer_name", <<>>)

C15_NameFallback ==
    \A r \in DOMAIN reqs :
        Dispatched(reqs[r])
        => LET lead_data == reqs[r].body.result
               first == Get(lead_data, "first_name", <<>>)
               last == Get(lead_data, "last_name", <<>>)
               combined == CombinedName(lead_data)
           IN  IF first = <<>> /\ last = <<>> /\ combined # <<>>
               THEN /\ reqs[r].lead.first_name = FirstToken(combined)
                    /\ reqs[r].lead.last_name = AfterFirstToken(combined)
               ELSE /\ reqs[r].lead.first_name = first
                    /\ reqs[r].lead.last_name = last

\* The combined name "J  Q" (two spaces) was split into "J" and "Q".
C15_CombinedNameSplit ==
    \E r \in DOMAIN reqs :
        /\ Dispatched(reqs[r])
        /\ Get(reqs[r].body.result, "first_name", <<>>) = <<>>
        /\ Get(reqs[r].body.result, "name", <<>>) = <<"J", " ", " ", "Q">>
        /\ reqs[r].lead.first_name = <<"J">>
        /\ reqs[r].lead.last_name = <<"Q">>

(***************************************************************************)
(* C16.  Phone fallback: the lead's phone is the structured output's       *)
(* phone_number when that is non-empty, otherwise the customer number of   *)
(* the call metadata, otherwise empty.                                     *)
(***************************************************************************)
C16_PhoneFallback ==
    \A r \in DOMAIN reqs :
        Dispatched(reqs[r])
        => LET structured == Get(reqs[r].body.result, "phone_number", <<>>)
               metadata == Get(reqs[r].body.message, "number", <<>>)
           IN  reqs[r].lead.phone_number =
                 (IF structured # <<>> THEN structured
                  ELSE IF metadata # <<>> THEN metadata
                  ELSE <<>>)

\* Both sources were present and the structured one was taken.
C16_StructuredPhoneWins ==
    \E r \in DOMAIN reqs :
        /\ Dispatched(reqs[r])
        /\ Get(reqs[r].body.result, "phone_number", <<>>) = Phone
        /\ Get(reqs[r].body.message, "number", <<>>) = CallerNumber
        /\ reqs[r].lead.phone_number = Phone

(***************************************************************************)
(* C17.  Summary fallback chain: the lead's issue summary is the explicit  *)
(* summary field when it is non-empty, otherwise '{urgency} -              *)
(* {damage_type}' when the structured output has an urgency or a damage    *)
(* type to synthesize it from, otherwise the first 500 characters of the   *)
(* transcript when the report has one.                                     *)
(***************************************************************************)
\* The first 500 characters of a transcript; the transcripts of the model
\* are shorter than that.
TranscriptExcerpt(t) == t

C17_SummaryFallback ==
    \A r \in DOMAIN reqs :
        Dispatched(reqs[r])
        => LET lead_data == reqs[r].body.result
               issue_summary == Get(lead_data, "issue_summary", "")
               issueSummary == Get(lead_data, "issueSummary", "")
               urgency == Get(lead_data, "urgency", "")
               damage_type == Get(lead_data, "damage_type", "")
               transcript == Get(reqs[r].body.message, "transcript", "")
           IN  IF Truthy(issue_summary)
               THEN reqs[r].lead.issue_summary = issue_summary
               ELSE IF Truthy(issueSummary)
               THEN reqs[r].lead.issue_summary = issueSummary
               ELSE IF Truthy(urgency) \/ Truthy(damage_type)
               THEN reqs[r].lead.issue_summary =
                      (IF Truthy(urgency) THEN urgency ELSE "standard") \o " - "
                      \o (IF Truthy(damage_type) THEN damage_type ELSE "Not specified")
               ELSE Truthy(transcript)
                    => reqs[r].lead.issue_summary = TranscriptExcerpt(transcript)

(***************************************************************************)
(* C18.  With Twilio configured, an answered end-of-call request that      *)
(* reached dispatch has attempted every non-blank technician number once,  *)
(* whichever of the sends failed, and its SMS flag tells whether at least  *)
(* one message was sent.                                                   *)
(***************************************************************************)
C18_EveryRecipientAttempted ==
    \A r \in DOMAIN reqs :
        (Dispatched(reqs[r]) /\ Answered(reqs[r]) /\ config.twilio_client)
        => /\ reqs[r].calls["sms"] = Cardinality(Recipients)
           /\ reqs[r].resp.flags["sms"] <=> reqs[r].acks["sms"] > 0

(***************************************************************************)
(* C19.  Address parsing by comma segments, as the contact sent to         *)
(* Albiware shows it: with 3 or more segments the first is the street, the *)
(* second the city, and the whitespace tokens of the third are the region  *)
(* and the postal code; with 2 segments the street and the city are set    *)
(* and region and postal code are empty; with fewer the whole string is    *)
(* the street, region and postal code are empty, and the city is           *)
(* 'Las Vegas'.                                                            *)
(***************************************************************************)
LasVegas == <<"L", "a", "s", " ", "V", "e", "g", "a", "s">>

\* The comma segments of an address, each without surrounding whitespace.
Segments(a) ==
    IF a = <<>> THEN <<>> ELSE [i \in DOMAIN SplitComma(a) |-> Strip(SplitComma(a)[i])]

C19_AddressParts ==
    \A r \in DOMAIN reqs :
        (Dispatched(reqs[r]) /\ reqs[r].contact # EmptyDict)
        => LET a == reqs[r].lead.address
               seg == Segments(a)
               got == reqs[r].contact
           IN  IF Len(seg) >= 3
               THEN /\ got.address1 = seg[1]
                    /\ got.city = seg[2]
                    /\ got.state = FirstToken(seg[3])
                    /\ got.zipCode = FirstToken(AfterFirstToken(seg[3]))
               ELSE IF Len(seg) = 2
               THEN /\ got.address1 = seg[1]
                    /\ got.city = seg[2]
                    /\ got.state = <<>>
                    /\ got.zipCode = <<>>
               ELSE /\ got.address1 = a
                    /\ got.city = LasVegas
                    /\ got.state = <<>>
                    /\ got.zipCode = <<>>

(***************************************************************************)
(* C20.  Phone normalization in /book-appointment: a number that starts    *)
(* with '+' is kept as it is, normalizing twice gives what normalizing     *)
(* once gives, and any other number becomes '+1' followed by its digits    *)
(* only, so that two spellings of the same digits give the same number.    *)
(***************************************************************************)
IsDigit(ch) == ch \in {"0", "1", "2", "3", "4", "5", "6", "7", "8", "9"}

\* The digits of a phone number, in order.
Digits(p) == SelectSeq(p, IsDigit)

C20_PhoneCanonical ==
    \A r \in DOMAIN reqs :
        (reqs[r].ep = "book-appointment" /\ reqs[r].lead # EmptyDict)
        => LET phone == Get(reqs[r].body.args, "phone", <<>>)
               got == reqs[r].lead.phone_number
           IN  /\ StartsWithPlus(phone) => got = phone
               /\ customer_phone(got) = got
               /\ ~StartsWithPlus(phone) => got = <<"+", "1">> \o Digits(phone)

(***************************************************************************)
(* C21.  The toolCallId of every tool-endpoint answer correlates with the  *)
(* request: it is the id of the first entry of toolCallList when the       *)
(* request has one, and 'function-call' when the request has the legacy    *)
(* functionCall shape, whether the handler succeeded or failed.            *)
(***************************************************************************)
C21_ToolCallIdCorrelates ==
    \A r \in DOMAIN reqs :
        (reqs[r].ep # "webhook" /\ Answered(reqs[r]) /\ reqs[r].body.json)
        => /\ (reqs[r].body.tool = "list" /\ "id" \in DOMAIN reqs[r].body.tool_call)
                => reqs[r].resp.toolCallId = reqs[r].body.tool_call.id
           /\ reqs[r].body.tool = "function"
                => reqs[r].resp.toolCallId = "function-call"

(***************************************************************************)
(* C22.  Tool scope: a check-availability, cancel-appointment or           *)
(* reschedule-appointment request leaves the appointment cache as it was,  *)
(* and no request of any of the four tool endpoints ever calls a lead sink *)
(* (spreadsheet, CRM contact, technician SMS, either calendar).            *)
(***************************************************************************)
ReadOnlyTools == {"check-availability", "cancel-appointment", "reschedule-appointment"}

C22_ToolScope ==
    [][/\ \A r \in DOMAIN reqs' :
             (r \notin DOMAIN reqs /\ reqs'[r].ep \in ReadOnlyTools)
             => appointment_storage' = appointment_storage
       /\ \A r \in DOMAIN reqs' :
             reqs'[r].ep # "webhook"
             => \A s \in Sinks : reqs'[r].calls[s] = 0 /\ reqs'[r].tried[s] = 0]_vars

\* A cancel-appointment request of a call was answered while the call's
\* booking was cached.
C22_ToolsAnsweredWithBooking ==
    /\ appointment_storage # EmptyDict
    /\ \E r \in DOMAIN reqs :
          /\ Answered(reqs[r])
          /\ reqs[r].ep = "cancel-appointment"
          /\ call_id_of(reqs[r].body) \in DOMAIN appointment_storage

(***************************************************************************)
(* C23.  No booking is lost under overlapping requests: a record that      *)
(* book-appointment put in the cache for a call id is only ever deleted by *)
(* an end-of-call handler that read that very record and merged it into    *)
(* its lead, also when the booking arrives between the handler's cache     *)
(* read and its cleanup.                                                   *)
(***************************************************************************)
C23_NoBookingLost ==
    [][\A c \in DOMAIN appointment_storage :
          c \notin DOMAIN appointment_storage'
          => \E r \in DOMAIN reqs :
                /\ reqs[r].ep = "webhook"
                /\ reqs[r].call_id = c
                /\ reqs[r].stored = appointment_storage[c]]_vars

(***************************************************************************)
(* C24.  Cache isolation: the cache never has the empty string as a key;   *)
(* an end-of-call handler for call id c takes cached data only when c is   *)
(* not empty and a booking with that same call id stored it; a booking     *)
(* without call id stores nothing and a report without call id takes       *)
(* nothing; and no step of the handler of a report for c changes the       *)
(* record of any other call id.                                            *)
(***************************************************************************)
C24_CacheIsolation ==
    [][/\ "" \notin DOMAIN appointment_storage'
       /\ \A r \in DOMAIN reqs' :
             (reqs'[r].ep = "webhook" /\ reqs'[r].stored # EmptyDict)
             => /\ reqs'[r].call_id # ""
                /\ \E k \in DOMAIN reqs' :
                      /\ reqs'[k].ep = "book-appointment"
                      /\ reqs'[k].pc # "received"
                      /\ call_id_of(reqs'[k].body) = reqs'[r].call_id
                      /\ AppointmentRecord(reqs'[k].raw) = reqs'[r].stored
       /\ \A r \in DOMAIN reqs' \ DOMAIN reqs :
             (reqs'[r].ep = "book-appointment" /\ call_id_of(reqs'[r].body) = "")
             => appointment_storage' = appointment_storage
       /\ \A r \in DOMAIN reqs' :
             (reqs'[r].ep = "webhook" /\ (r \in DOMAIN reqs => reqs'[r] # reqs[r]))
             => \A d \in DOMAIN appointment_storage :
                   d # call_id_of(reqs'[r].body)
                   => /\ d \in DOMAIN appointment_storage'
                      /\ appointment_storage'[d] = appointment_storage[d]]_vars

\* A report for c1 took the booking of c1, deleted it and was answered,
\* and the record of c2 is still cached.
C24_TakenBesideOtherCall ==
    /\ "c2" \in DOMAIN appointment_storage
    /\ "c1" \notin DOMAIN appointment_storage
    /\ \E r \in DOMAIN reqs :
          /\ reqs[r].ep = "webhook"
          /\ reqs[r].call_id = "c1"
          /\ reqs[r].stored # EmptyDict
          /\ Answered(reqs[r])
          /\ reqs[r].resp.code = 200

(***************************************************************************)
(* C25.  Last booking wins: whenever book-appointment stores for a call id *)
(* (whatever was cached for it before), the cache then holds for that call *)
(* id exactly the record of this most recent booking; and an end-of-call   *)
(* report that finds a record for its call id passes on the datetime of    *)
(* that record, that is of the most recent booking.                        *)
(***************************************************************************)
C25_LastBookingWins ==
    [][\A r \in DOMAIN reqs' \ DOMAIN reqs :
          /\ (reqs'[r].ep = "book-appointment" /\ reqs'[r].pc = "customer_sms"
                /\ reqs'[r].call_id # "")
             => /\ reqs'[r].call_id \in DOMAIN appointment_storage'
                /\ appointment_storage'[reqs'[r].call_id] = AppointmentRecord(reqs'[r].raw)
          /\ (Dispatched(reqs'[r]) /\ reqs'[r].call_id \in DOMAIN appointment_storage)
             => reqs'[r].raw = appointment_storage[reqs'[r].call_id].appointment_datetime]_vars

(***************************************************************************)
(* C26.  A book-appointment request answered with the apology hand-off     *)
(* string leaves the appointment cache exactly as it was before the        *)
(* request; a request answered with the confirmation string whose call id  *)
(* is not empty has its record in the cache when it is answered, whether   *)
(* the customer SMS was sent or not.                                       *)
(***************************************************************************)
C26_FailureStoresNothing ==
    [][\A r \in DOMAIN reqs' :
          (reqs'[r].ep = "book-appointment" /\ AnsweredNow(r))
          => /\ (reqs'[r].resp.result = BookFailure /\ r \notin DOMAIN reqs)
                => appointment_storage' = appointment_storage
             /\ reqs'[r].resp.result = BookFailure => r \notin DOMAIN reqs
             /\ (reqs'[r].resp.result = BookConfirmation
                   /\ call_id_of(reqs'[r].body) # "")
                => /\ call_id_of(reqs'[r].body) \in DOMAIN appointment_storage'
                   /\ appointment_storage'[call_id_of(reqs'[r].body)]
                        = AppointmentRecord(reqs'[r].raw)]_vars

\* A booking failed internally while the cache held an earlier booking, which
\* is still there.
C26_FailedBesideCachedBooking ==
    /\ appointment_storage # EmptyDict
    /\ \E r \in DOMAIN reqs :
          /\ reqs[r].ep = "book-appointment"
          /\ Answered(reqs[r])
          /\ reqs[r].resp.result = BookFailure
          /\ call_id_of(reqs[r].body) \in DOMAIN appointment_storage

(***************************************************************************)
(* C27.  book-appointment answers 'Confirmation sent! You'll receive a     *)
(* text message shortly...' only when the customer confirmation SMS was    *)
(* actually sent successfully.                                             *)
(***************************************************************************)
C27_ConfirmationOnlyIfSent ==
    \A r \in DOMAIN reqs :
        (reqs[r].ep = "book-appointment" /\ Answered(reqs[r])
           /\ reqs[r].resp.result = BookConfirmation)
        => reqs[r].sms_sent /\ reqs[r].acks["customer_sms"] = 1

(***************************************************************************)
(* C28.  When the book-appointment arguments carry no customer phone       *)
(* number, no customer SMS send is attempted: the SMS provider is not      *)
(* called for that request.                                                *)
(***************************************************************************)
C28_NoPhoneNoSend ==
    \A r \in DOMAIN reqs :
        (reqs[r].ep = "book-appointment" /\ reqs[r].body.json
           /\ Get(reqs[r].body.args, "phone", <<>>) = <<>>)
        => reqs[r].calls["customer_sms"] = 0

(***************************************************************************)
(* C29.  In every processed end-of-call request the display string of the  *)
(* appointment placed in the lead is derived from the raw appointment      *)
(* datetime that is passed to the calendar sinks: it is the display form   *)
(* of that datetime, and a placeholder or empty only when there is no      *)
(* datetime, for every cached record and structured-output datetime.       *)
(***************************************************************************)
C29_DisplayMatchesRaw ==
    \A r \in DOMAIN reqs :
        Dispatched(reqs[r])
        => IF Truthy(reqs[r].raw)
           THEN reqs[r].lead.appointment_datetime = FormatDisplay(reqs[r].raw)
           ELSE reqs[r].lead.appointment_datetime \in {"", display_time("")}

(***************************************************************************)
(* C30.  get_available_slots returns at most 10 slots; each starts on the  *)
(* hour, at an hour within the business hours of its weekday; the          *)
(* 120-minute window of a returned slot shares no time with any existing   *)
(* calendar event; and when the calendar is not available or the lookup    *)
(* fails it returns the empty list and the handler still answers.          *)
(***************************************************************************)
Later(a, b) == IF a < b THEN b ELSE a

Earlier(a, b) == IF a < b THEN a ELSE b

C30_SlotsFreeInBusinessHours ==
    \A r \in DOMAIN reqs :
        reqs[r].called
        => LET slots == reqs[r].available_slots
               day(i) == slots[i].datetime \div 1440
               weekday(i) == (reqs[r].start_weekday + day(i)) % 7
               hour(i) == (slots[i].datetime - day(i) * 1440) \div 60
           IN  /\ Len(slots) <= 10
               /\ \A i \in DOMAIN slots :
                     /\ slots[i].datetime \in 0..(7 * 1440 - 1)
                     /\ slots[i].datetime % 60 = 0
                     /\ slots[i].display = <<weekday(i), hour(i), 0>>
                     /\ weekday(i) # 6
                     /\ weekday(i) \in 0..4 => hour(i) \in 8..17
                     /\ weekday(i) = 5 => hour(i) \in 9..15
                     /\ \A e \in DOMAIN reqs[r].lookup.items :
                           LET event == reqs[r].lookup.items[e]
                           IN  ~(Later(slots[i].datetime, event.start)
                                   < Earlier(slots[i].datetime + 120, event.end))
               /\ (~config.calendar_service \/ reqs[r].lookup.raises
                     \/ \E e \in DOMAIN reqs[r].lookup.items : ~reqs[r].lookup.items[e].ok)
                  => /\ slots = <<>>
                     /\ Answered(reqs[r])
                     /\ reqs[r].resp.code = 200
                     /\ reqs[r].resp.result = AvailabilityApology

\* Ten slots were returned from a calendar with events, and the first one is
\* not the first business hour of the range: an event took that hour.
C30_TenSlotsAroundEvents ==
    \E r \in DOMAIN reqs :
        /\ reqs[r].called
        /\ reqs[r].start_weekday = 1
        /\ Len(reqs[r].lookup.items) = MaxEvents
        /\ Len(reqs[r].available_slots) = 10
        /\ reqs[r].available_slots[1].datetime = 11 * 60

====
